---- MODULE Spec2Model ----
(***************************************************************************)
(* Model of the pagination iterators of cis_client:                        *)
(*   - the blocking ProfileIter          (src/src/sync/batch.rs)           *)
(*   - the stream   AsyncProfileIter     (src/src/batch.rs)                *)
(* together with the get_batch decoding of a page response                 *)
(* (src/src/sync/client.rs, src/src/client.rs).                            *)
(*                                                                         *)
(* Option<T> is modelled as a sequence of length 0 (None) or 1 (Some(x)).  *)
(* A cursor (NextPage.id) is the index of the page it points to.           *)
(* A raw item of a response is the page index (a decodable Profile) or     *)
(* BadItem (a JSON value that is not a Profile).                           *)
(***************************************************************************)
EXTENDS Integers, Sequences, FiniteSets, TLC

\* ------------------------------------------------------------------ bounds
MaxPages == 3
MaxItems == 1
MaxPulls == 5
MaxCalls == 2
MaxProfiles == 3
MaxBatchSize == 2
MaxUpdates == 3
MaxTime == 2

\* ------------------------------------------------------------- the remote
None == <<>>
Some(x) == <<x>>
IsSome(o) == Len(o) = 1
IsNone(o) == Len(o) = 0
Unwrap(o) == o[1]

BadItem == 0

\* The raw "nextPage" member of a response: missing (None), a cursor
\* {id: k} (Some(k)), or a value that is no NextPage (Some(BadItem)).
NextAbsent == None
NextMalformed == Some(BadItem)

RECURSIVE SeqsUpTo(_, _)
SeqsUpTo(S, n) ==
  IF n = 0 THEN {<<>>}
  ELSE LET shorter == SeqsUpTo(S, n - 1)
       IN shorter \cup {Append(s, x) : s \in {t \in shorter : Len(t) = n - 1}, x \in S}

\* The raw "Items" member of page k: missing / not an array (None), or an
\* array of raw items.
RawItems(k) == {None} \cup {Some(s) : s \in SeqsUpTo({k, BadItem}, MaxItems)}

\* A remote listing of P pages: page k < P links to page k + 1, the last
\* page carries no usable nextPage.
RECURSIVE Listings(_)
Listings(P) ==
  IF P = 1
    THEN {<<[Items |-> i, nextPage |-> n]>> :
            i \in RawItems(1), n \in {NextAbsent, NextMalformed}}
    ELSE {<<[Items |-> i, nextPage |-> Some(2)]>> \o
            [k \in 1..(P - 1) |->
               [Items |-> IF IsSome(t[k].Items)
                            THEN Some([j \in 1..Len(Unwrap(t[k].Items)) |->
                                         IF Unwrap(t[k].Items)[j] = BadItem
                                           THEN BadItem ELSE k + 1])
                            ELSE None,
                nextPage |-> IF IsSome(t[k].nextPage) /\ Unwrap(t[k].nextPage) # BadItem
                               THEN Some(k + 2) ELSE t[k].nextPage]] :
            i \in RawItems(1), t \in Listings(P - 1)}

VARIABLES
  kind,           \* what this run drives: "blocking" or "async" (an iterator),
                  \* "both" (the two iterators side by side),
                  \* "client" (client operations) or "auth" (the token fetch)
  remote,         \* the remote listing (page responses, by page index)
  filter,         \* ProfileIter.filter / AsyncProfileIter.filter : Option<String>
  state,          \* ProfileIter.state
  current_batch,  \* ProfileIter.current_batch : Option<Batch>
  fetches,        \* log of the get_batch calls made by ProfileIter
  out,            \* log of the values returned by ProfileIter::next
  astate,         \* AsyncProfileIter.state
  next,           \* AsyncProfileIter.next : Option<NextPage>
  afetches,       \* log of the get_batch calls made by AsyncProfileIter
  aout,           \* log of the values returned by AsyncProfileIter::poll_next
  batch_size,     \* CisClient.batch_size
  calls,          \* log of the profile-API operations made on a CisClient
  posts,          \* POSTs sent to the token endpoint so far
  episodes,       \* calls of Auth0::update so far
  last,           \* Option: the last call of Auth0::update, with its result
  now,            \* Utc::now()
  checked         \* Option: the last call of BearerBearer::valid

vars == <<kind, remote, filter, state, current_batch, fetches, out,
          astate, next, afetches, aout, batch_size, calls,
          posts, episodes, last, now, checked>>

blockingVars == <<state, current_batch, fetches, out>>
asyncVars == <<astate, next, afetches, aout>>
clientVars == <<batch_size, calls>>
authVars == <<posts, episodes, last, now, checked>>

\* The page a request with this cursor (Option<NextPage>) is answered with.
PageOf(r, cursor) == r[IF IsNone(cursor) THEN 1 ELSE Unwrap(cursor)]

\* serde_json::from_value::<Option<NextPage>>(json["nextPage"]).ok():
\* a missing and a malformed nextPage both decode to None.
DecodeNextPage(np) == IF IsSome(np) /\ Unwrap(np) # BadItem THEN np ELSE None

\* filter_map(|item| from_value::<Profile>(item).ok()): undecodable items
\* are dropped, the others keep their order.
FilterProfiles(s) == SelectSeq(s, LAMBDA x : x # BadItem)

\* Outcome of self.get(url): "ok", or "fail" (token, transport, HTTP status
\* or body error).
Outcomes == {"ok", "fail"}

Ok(b) == [ok |-> TRUE, batch |-> Some(b), err |-> ""]
Err(e) == [ok |-> FALSE, batch |-> None, err |-> e]

\* sync::client::CisClient::get_batch
SyncGetBatch(r, cursor, outcome) ==
  IF outcome # "ok" THEN Err("request")
  ELSE LET page == PageOf(r, cursor)
       IN Ok([items |-> IF IsSome(page.Items)
                          THEN Some(FilterProfiles(Unwrap(page.Items)))
                          ELSE None,
              next_page |-> DecodeNextPage(page.nextPage)])

\* Values returned by a pull.
RetNone == [tag |-> "None", items |-> <<>>, err |-> ""]
RetOk(items) == [tag |-> "Ok", items |-> items, err |-> ""]
RetErr(e) == [tag |-> "Err", items |-> <<>>, err |-> e]
RetPending == [tag |-> "Pending", items |-> <<>>, err |-> ""]

\* The query of the URL get_batch requests (the same code in both clients):
\* append_pair("filterDisplay", df) if there is a filter, then, if there is
\* a cursor, set_query(Some("nextPage=...")), which replaces the query.
EmptyQuery == [filterDisplay |-> None, nextPage |-> None]
AppendFilterDisplay(q, df) == [q EXCEPT !.filterDisplay = df]
SetQuery(q, next_page) == [filterDisplay |-> None, nextPage |-> next_page]
Query(next_page, df) ==
  LET url == IF IsSome(df) THEN AppendFilterDisplay(EmptyQuery, df) ELSE EmptyQuery
  IN IF IsSome(next_page) THEN SetQuery(url, next_page) ELSE url

\* An entry of a fetch log: the cursor get_batch was called with, the query
\* of its URL, how the call ended ("ok", "err", "pending") and the number of
\* the pull that made it.
Fetch(cursor, query, res, pull) ==
  [cursor |-> cursor, query |-> query, res |-> res, pull |-> pull]

\* batch.items.take()
TakeItemsKeep(batch) == batch
TakeItems(batch) == [batch EXCEPT !.items = None]

\* batch.next_page.take()
TakeNextPage(batch) == [batch EXCEPT !.next_page = None]

\* self.state = ProfileIterState::Error
EnterErrorSkip(it) == it
EnterError(it) == [it EXCEPT !.state = "Error"]

\* self.state = ProfileIterState::Inflight;
\* self.current_batch = Some(new_batch);
StartInflightNoBatch(it, new_batch) == [it EXCEPT !.state = "Inflight"]
StartInflight(it, new_batch) ==
  [it EXCEPT !.state = "Inflight", !.current_batch = new_batch]

\* self.state = ProfileIterState::Done; None
FinishForgetful(it) == [it EXCEPT !.ret = RetNone]
Finish(it) == [it EXCEPT !.state = "Done", !.ret = RetNone]

\* ProfileIterState::Done | ProfileIterState::Error => None
EndOfStreamRewind(it) == [it EXCEPT !.state = "Uninitalized", !.ret = RetNone]
EndOfStream(it) == [it EXCEPT !.ret = RetNone]

\* ProfileIter::next.  it = [state, current_batch, filter, fetches, ret]; outs = the
\* outcomes of the requests this call may issue, in order; pull = the number
\* of this call.  The result is the iterator after the call, with ret the
\* value returned.
RECURSIVE IterNext(_, _, _, _)
IterNext(r, it, outs, pull) ==
  CASE it.state \in {"Done", "Error"} -> EndOfStream(it)
    [] it.state = "Uninitalized" ->
         LET res == SyncGetBatch(r, None, Head(outs))
             log == Append(it.fetches,
                           Fetch(None, Query(None, it.filter),
                                 IF res.ok THEN "ok" ELSE "err", pull))
         IN IF res.ok
              THEN IterNext(r, [StartInflight(it, res.batch) EXCEPT !.fetches = log],
                            Tail(outs), pull)
              ELSE [EnterError(it) EXCEPT !.fetches = log,
                                          !.ret = RetErr(res.err)]
    [] it.state = "Inflight" ->
         IF IsSome(it.current_batch)
           THEN LET batch == Unwrap(it.current_batch)
                IN IF IsSome(batch.items)
                     THEN [it EXCEPT !.current_batch = Some(TakeItems(batch)),
                                     !.ret = RetOk(Unwrap(batch.items))]
                     ELSE IF IsSome(batch.next_page)
                       THEN LET res == SyncGetBatch(r, batch.next_page, Head(outs))
                                log == Append(it.fetches,
                                              Fetch(batch.next_page,
                                                    Query(batch.next_page, it.filter),
                                                    IF res.ok THEN "ok" ELSE "err",
                                                    pull))
                            IN IF res.ok
                                 THEN IterNext(r, [it EXCEPT !.current_batch = res.batch,
                                                             !.fetches = log],
                                               Tail(outs), pull)
                                 ELSE [EnterError(it) EXCEPT
                                         !.current_batch = Some(TakeNextPage(batch)),
                                         !.fetches = log,
                                         !.ret = RetErr(res.err)]
                       ELSE Finish(it)
           ELSE [EnterError(it) EXCEPT !.ret = RetErr("InvalidState")]

\* Outcome of polling the future returned by the async get_batch once:
\* "ok" and "fail" are Ready, "pending" is Poll::Pending.
AsyncOutcomes == {"ok", "fail", "pending"}

Pending == [ok |-> FALSE, batch |-> None, err |-> "pending"]

\* serde_json::from_value::<Vec<Profile>>(json["Items"]): fails unless Items
\* is an array all of whose members decode.
DecodeProfiles(items) ==
  IF IsSome(items) /\ \A i \in 1..Len(Unwrap(items)) : Unwrap(items)[i] # BadItem
    THEN Some(Unwrap(items))
    ELSE None

\* client::CisClient::get_batch, polled once.
AsyncGetBatch(r, cursor, outcome) ==
  CASE outcome = "pending" -> Pending
    [] outcome = "fail" -> Err("request")
    [] OTHER ->
         LET page == PageOf(r, cursor)
             items == DecodeProfiles(page.Items)
         IN IF IsNone(items) THEN Err("decode")
            ELSE Ok([items |-> Unwrap(items),
                     next_page |-> DecodeNextPage(page.nextPage)])

FetchRes(res) == IF res.ok THEN "ok" ELSE IF res = Pending THEN "pending" ELSE "err"

\* batch.next_page.is_none() && batch.items.is_empty()
NothingAtAll(batch) == IsNone(batch.next_page) /\ batch.items = <<>>

\* *next.lock().unwrap() = batch.next_page
StoreNextOnce(it, batch) ==
  IF IsSome(it.next) THEN it ELSE [it EXCEPT !.next = batch.next_page]
StoreNextPrefetch(it, batch) ==
  IF IsNone(batch.next_page) THEN [it EXCEPT !.next = batch.next_page]
  ELSE [it EXCEPT !.next = batch.next_page,
                  !.fetches = Append(@, Fetch(batch.next_page,
                                              Query(batch.next_page, it.filter),
                                              "ok", it.fetches[Len(it.fetches)].pull))]
StoreNext(it, batch) == [it EXCEPT !.next = batch.next_page]

\* *state_update.write().unwrap() = ProfileIterState::Inflight, before the
\* future is polled.
MarkInflightLater(it) == it
MarkInflight(it) == [it EXCEPT !.state = "Inflight"]

\* AsyncProfileIter::poll_next.  it = [state, next, filter, fetches, ret]; outcome =
\* what polling the get_batch future yields, if this call creates one; pull =
\* the number of this call.  The future is a temporary of the call: it is
\* dropped when the call returns, also when it was Pending.
AsyncPollNext(r, it, outcome, pull) ==
  CASE it.state = "Done" -> [it EXCEPT !.ret = RetNone]
    [] it.state = "Uninitalized" ->
         LET res == AsyncGetBatch(r, None, outcome)
             st == [MarkInflight(it) EXCEPT
                              !.fetches = Append(@, Fetch(None, Query(None, it.filter),
                                                     FetchRes(res), pull))]
         IN IF res = Pending THEN [st EXCEPT !.ret = RetPending]
            ELSE IF res.ok
              THEN LET batch == Unwrap(res.batch)
                   IN IF NothingAtAll(batch)
                        THEN [st EXCEPT !.ret = RetNone]
                        ELSE [StoreNext(st, batch) EXCEPT !.ret = RetOk(batch.items)]
              ELSE [st EXCEPT !.ret = RetNone]
    [] it.state = "Inflight" ->
         LET nexter == it.next
         IN IF IsNone(nexter)
              THEN [it EXCEPT !.state = "Done", !.ret = RetNone]
              ELSE LET res == AsyncGetBatch(r, nexter, outcome)
                       st == [it EXCEPT !.fetches =
                                           Append(@, Fetch(nexter, Query(nexter, it.filter),
                                                           FetchRes(res), pull))]
                   IN IF res = Pending THEN [st EXCEPT !.ret = RetPending]
                      ELSE IF res.ok
                        THEN LET batch == Unwrap(res.batch)
                             IN [StoreNext(st, batch) EXCEPT !.ret = RetOk(batch.items)]
                        ELSE [st EXCEPT !.ret = RetNone]

\* ------------------------------------------------------------ the client
\* What an operation does, in order: a call of bearer_store.get() (ev =
\* "token", tok = the number of that call, ok = whether it gave a token) or
\* an HTTP request sent (ev = "http", tok = the call of get() whose token it
\* carries, ok = whether send, the status check and the body decoding
\* succeeded).
TokenEv(id, ok) ==
  [ev |-> "token", verb |-> "", tok |-> id, ok |-> ok, payload |-> <<>>]
HttpEv(verb, id, ok, payload) ==
  [ev |-> "http", verb |-> verb, tok |-> id, ok |-> ok, payload |-> payload]

Done(trace, ret, profile) == [trace |-> trace, ret |-> ret, profile |-> profile]

\* sync::client::CisClient::get / post / delete: the token first, then the
\* request with the token as bearer.
RequestNoToken(verb, payload, id, tokenOk, httpOk) ==
  Done(<<HttpEv(verb, id, httpOk, payload)>>,
       IF httpOk THEN "Ok" ELSE "RequestError", None)
Request(verb, payload, id, tokenOk, httpOk) ==
  IF ~tokenOk
    THEN Done(<<TokenEv(id, FALSE)>>, "RemoteError", None)
    ELSE Done(<<TokenEv(id, TRUE), HttpEv(verb, id, httpOk, payload)>>,
              IF httpOk THEN "Ok" ELSE "RequestError", None)

\* client::CisClient: bearer_store.get().and_then(send).and_then(
\* error_for_status).and_then(json), after the URL was parsed.
AsyncRequest(verb, payload, urlOk, id, tokenOk, httpOk) ==
  IF ~urlOk THEN Done(<<>>, "UrlParseError", None)
  ELSE IF ~tokenOk
    THEN Done(<<TokenEv(id, FALSE)>>, "RemoteError", None)
    ELSE Done(<<TokenEv(id, TRUE), HttpEv(verb, id, httpOk, payload)>>,
              IF httpOk THEN "Ok" ELSE "RequestError", None)

\* if profile.uuid.value.is_none() { ProfileDoesNotExist } else { profile }
CheckUuidLax(done, uuid) ==
  IF done.ret # "Ok" THEN done ELSE [done EXCEPT !.profile = uuid]
CheckUuid(done, uuid) ==
  IF done.ret # "Ok" THEN done
  ELSE IF IsNone(uuid) THEN [done EXCEPT !.ret = "ProfileDoesNotExist"]
  ELSE [done EXCEPT !.profile = uuid]

\* sync::client::CisClient::get_user_sync, which get_user_by,
\* get_inactive_user_by and get_any_user_by call with active = true, false
\* and any (a query parameter of the URL).  uuid = profile.uuid.value of the
\* profile the response decodes to.
GetUserSync(urlOk, id, tokenOk, httpOk, uuid) ==
  IF ~urlOk THEN Done(<<>>, "UrlParseError", None)
  ELSE CheckUuid(Request("GET", <<>>, id, tokenOk, httpOk), uuid)

\* client::CisClient::get_user
GetUser(urlOk, id, tokenOk, httpOk, uuid) ==
  CheckUuid(AsyncRequest("GET", <<>>, urlOk, id, tokenOk, httpOk), uuid)

\* The length of the next chunk of profiles.chunks(self.batch_size): a =
\* batch_size, b = the profiles left.
MinOne(a, b) == 1
Min(a, b) == IF a < b THEN a ELSE b

\* sync::client::CisClient::update_users: one post per chunk of batch_size
\* profiles, stopping at the first error.  outs[c] = the outcome of chunk c.
RECURSIVE UpdateUsers(_, _, _, _, _, _)
UpdateUsers(profiles, size, id, outs, c, trace) ==
  IF profiles = <<>> THEN Done(trace, "Ok", None)
  ELSE LET n == Min(size, Len(profiles))
           r == Request("POST", SubSeq(profiles, 1, n), id,
                        outs[c] # "token", outs[c] = "ok")
       IN IF r.ret # "Ok" THEN Done(trace \o r.trace, r.ret, None)
          ELSE UpdateUsers(SubSeq(profiles, n + 1, Len(profiles)), size, id + 1,
                           outs, c + 1, trace \o r.trace)

ChunkOutcomes == {"ok", "token", "http"}

\* The calls of bearer_store.get() made so far.
RECURSIVE TokenCalls(_)
TokenCalls(log) ==
  IF log = <<>> THEN 0
  ELSE TokenCalls(Tail(log))
       + Len(SelectSeq(Head(log).trace, LAMBDA e : e.ev = "token"))

\* static DEFAULT_BATCH_SIZE: usize = 25, the batch_size from_settings sets;
\* the field is public.
DEFAULT_BATCH_SIZE == 25

\* -------------------------------------------------------------- auth.rs
\* What the token endpoint can answer.  exchange: "ok" = a response whose
\* body is JSON, "send" = send() failed, "json" = the body is not JSON.
Exchanges == {"ok", "send", "json"}

\* An access_token string: not a JWT (decodable = FALSE), a JWT without an
\* exp claim, or a JWT with one.
AccessTokens ==
  {[decodable |-> FALSE, exp |-> None]}
    \cup {[decodable |-> TRUE, exp |-> e] :
            e \in {None} \cup {Some(t) : t \in 0..MaxTime}}

\* j["access_token"].as_str(): None when the field is absent or no string.
AccessTokenFields == {None} \cup {Some(t) : t \in AccessTokens}

Failed(posted, msg) == [ok |-> FALSE, posted |-> posted, value |-> None, msg |-> msg]
Got(posted, v) == [ok |-> TRUE, posted |-> posted, value |-> Some(v), msg |-> ""]

\* get_raw_access_token: one POST; send().await? and json().await? give a
\* reqwest error, a missing access_token gives TokenError::NoToken.
\* posted = the POSTs it sent.
GetRawAccessTokenRetry(exchange, field) ==
  IF exchange # "ok" THEN Failed(2, "reqwest error")
  ELSE IF IsNone(field) THEN Failed(1, "no token :/")
  ELSE Got(1, Unwrap(field))
GetRawAccessToken(exchange, field) ==
  IF exchange # "ok" THEN Failed(1, "reqwest error")
  ELSE IF IsNone(field) THEN Failed(1, "no token :/")
  ELSE Got(1, Unwrap(field))

\* get_expiration: unverified_payload()? gives a biscuit error, a payload
\* without exp gives TokenError::NoExpiry.
GetExpirationOrEpoch(token) ==
  IF ~token.decodable THEN Failed(0, "biscuit error")
  ELSE IF IsNone(token.exp) THEN Got(0, 0)
  ELSE Got(0, Unwrap(token.exp))
GetExpiration(token) ==
  IF ~token.decodable THEN Failed(0, "biscuit error")
  ELSE IF IsNone(token.exp) THEN Failed(0, "no expiry set")
  ELSE Got(0, Unwrap(token.exp))

\* BearerBearer { bearer_token_str, exp }
BearerBearer(token, exp) == [bearer_token_str |-> token, exp |-> exp]

\* Auth0::update: every error becomes ExpiryGetError::UpdateFailed(the
\* error's text).
Auth0Update(exchange, field) ==
  LET raw == GetRawAccessToken(exchange, field)
  IN IF ~raw.ok THEN Failed(raw.posted, raw.msg)
     ELSE LET exp == GetExpiration(Unwrap(raw.value))
          IN IF ~exp.ok THEN Failed(raw.posted, exp.msg)
             ELSE Got(raw.posted, BearerBearer(Unwrap(raw.value), Unwrap(exp.value)))

\* BearerBearer::valid: *self.exp > Utc::now()
ValidAtExpiry(exp, time) == exp >= time
Valid(exp, time) == exp > time

\* The display filter an iterator is created with: none, or some level.
Filters == {None, Some("staff")}

\* A response both clients decode in full, to the same batch.
WellFormed(page) ==
  /\ IsSome(page.Items)
  /\ \A i \in 1..Len(Unwrap(page.Items)) : Unwrap(page.Items)[i] # BadItem
  /\ page.nextPage # NextMalformed

WellFormedListings ==
  {r \in UNION {Listings(P) : P \in 1..MaxPages} :
     \A k \in 1..Len(r) : WellFormed(r[k])}

\* A run drives one iterator over some remote listing, or makes operations
\* on a client with some batch_size (the listing then plays no part), or
\* runs the token fetch and the validity check of a credential.
Init ==
  /\ \/ /\ kind \in {"blocking", "async"}
        /\ remote \in UNION {Listings(P) : P \in 1..MaxPages}
        /\ filter \in Filters
        /\ batch_size = DEFAULT_BATCH_SIZE
     \/ /\ kind = "both"
        /\ remote \in WellFormedListings
        /\ filter \in Filters
        /\ batch_size = DEFAULT_BATCH_SIZE
     \/ /\ kind = "client"
        /\ remote = <<[Items |-> None, nextPage |-> NextAbsent]>>
        /\ filter = None
        /\ batch_size \in (1..MaxBatchSize) \cup {DEFAULT_BATCH_SIZE}
     \/ /\ kind = "auth"
        /\ remote = <<[Items |-> None, nextPage |-> NextAbsent]>>
        /\ filter = None
        /\ batch_size = DEFAULT_BATCH_SIZE
  /\ posts = 0
  /\ episodes = 0
  /\ last = None
  /\ now = 0
  /\ checked = None
  /\ calls = <<>>
  /\ state = "Uninitalized"
  /\ current_batch = None
  /\ fetches = <<>>
  /\ out = <<>>
  /\ astate = "Uninitalized"
  /\ next = None
  /\ afetches = <<>>
  /\ aout = <<>>

\* One call of ProfileIter::next by the consumer.
Pull ==
  /\ kind = "blocking"
  /\ Len(out) < MaxPulls
  /\ \E outs \in [1..(MaxPages + 1) -> Outcomes] :
       LET after == IterNext(remote,
                             [state |-> state, current_batch |-> current_batch,
                              filter |-> filter,
                              fetches |-> fetches, ret |-> RetNone],
                             outs, Len(out) + 1)
       IN /\ state' = after.state
          /\ current_batch' = after.current_batch
          /\ fetches' = after.fetches
          /\ out' = Append(out, after.ret)
  /\ UNCHANGED <<kind, remote, filter, asyncVars, clientVars, authVars>>

\* One call of AsyncProfileIter::poll_next by the consumer.
Poll ==
  /\ kind = "async"
  /\ Len(aout) < MaxPulls
  /\ \E outcome \in AsyncOutcomes :
       LET after == AsyncPollNext(remote,
                                  [state |-> astate, next |-> next,
                                   filter |-> filter,
                                   fetches |-> afetches, ret |-> RetNone],
                                  outcome, Len(aout) + 1)
       IN /\ astate' = after.state
          /\ next' = after.next
          /\ afetches' = after.fetches
          /\ aout' = Append(aout, after.ret)
  /\ UNCHANGED <<kind, remote, filter, blockingVars, clientVars, authVars>>

\* A ProfileIter and an AsyncProfileIter over the same listing are pulled
\* once each; every request succeeds and every future is Ready when polled.
PullBoth ==
  /\ kind = "both"
  /\ Len(out) < MaxPulls
  /\ LET after == IterNext(remote,
                           [state |-> state, current_batch |-> current_batch,
                            filter |-> filter,
                            fetches |-> fetches, ret |-> RetNone],
                           [i \in 1..(MaxPages + 1) |-> "ok"], Len(out) + 1)
         aafter == AsyncPollNext(remote,
                                 [state |-> astate, next |-> next,
                                  filter |-> filter,
                                  fetches |-> afetches, ret |-> RetNone],
                                 "ok", Len(aout) + 1)
     IN /\ state' = after.state
        /\ current_batch' = after.current_batch
        /\ fetches' = after.fetches
        /\ out' = Append(out, after.ret)
        /\ astate' = aafter.state
        /\ next' = aafter.next
        /\ afetches' = aafter.fetches
        /\ aout' = Append(aout, aafter.ret)
  /\ UNCHANGED <<kind, remote, filter, clientVars, authVars>>

\* arg = what the operation was called on: the uuid value of the profile
\* the remote holds (get_user), the profiles to write (the others).
Called(client, op, arg, done) ==
  /\ calls' = Append(calls, [client |-> client, op |-> op, arg |-> arg,
                             trace |-> done.trace, ret |-> done.ret,
                             profile |-> done.profile])
  /\ UNCHANGED <<kind, remote, filter, blockingVars, asyncVars, batch_size, authVars>>

\* One operation of the blocking client (sync::client), run to its return.
SyncCall ==
  /\ kind = "client"
  /\ Len(calls) < MaxCalls
  /\ LET id == TokenCalls(calls) + 1
     IN \/ \E tokenOk \in BOOLEAN, httpOk \in BOOLEAN :
             \/ \E urlOk \in BOOLEAN, uuid \in {None, Some(1)} :
                  Called("sync", "get_user", uuid,
                         GetUserSync(urlOk, id, tokenOk, httpOk, uuid))
             \/ Called("sync", "get_batch", <<>>,
                       Request("GET", <<>>, id, tokenOk, httpOk))
             \/ Called("sync", "update_user", <<1>>,
                       Request("POST", <<1>>, id, tokenOk, httpOk))
             \/ Called("sync", "delete_user", <<1>>,
                       Request("DELETE", <<1>>, id, tokenOk, httpOk))
        \/ \E n \in 0..MaxProfiles, outs \in [1..MaxProfiles -> ChunkOutcomes] :
             Called("sync", "update_users", [i \in 1..n |-> i],
                    UpdateUsers([i \in 1..n |-> i], batch_size, id, outs, 1, <<>>))

\* One operation of the future-based client (client), its future run to
\* completion.
AsyncCall ==
  /\ kind = "client"
  /\ Len(calls) < MaxCalls
  /\ LET id == TokenCalls(calls) + 1
     IN \E urlOk \in BOOLEAN, tokenOk \in BOOLEAN, httpOk \in BOOLEAN :
          \/ \E uuid \in {None, Some(1)} :
               Called("async", "get_user", uuid,
                      GetUser(urlOk, id, tokenOk, httpOk, uuid))
          \/ Called("async", "get_batch", <<>>,
                    AsyncRequest("GET", <<>>, urlOk, id, tokenOk, httpOk))
          \/ Called("async", "update_user", <<1>>,
                    AsyncRequest("POST", <<1>>, urlOk, id, tokenOk, httpOk))
          \/ Called("async", "delete_user", <<1>>,
                    AsyncRequest("DELETE", <<1>>, urlOk, id, tokenOk, httpOk))

\* One call of Auth0::update (by the bearer store), its future run to
\* completion.
Update ==
  /\ kind = "auth"
  /\ episodes < MaxUpdates
  /\ \E exchange \in Exchanges, field \in AccessTokenFields :
       LET res == Auth0Update(exchange, field)
       IN /\ posts' = posts + res.posted
          /\ episodes' = episodes + 1
          /\ last' = Some([exchange |-> exchange, field |-> field, res |-> res])
  /\ UNCHANGED <<kind, remote, filter, blockingVars, asyncVars, clientVars, now, checked>>

\* One call of valid() on the credential the last update gave.
CheckValid ==
  /\ kind = "auth"
  /\ IsSome(last)
  /\ Unwrap(last).res.ok
  /\ LET exp == Unwrap(Unwrap(last).res.value).exp
     IN checked' = Some([exp |-> exp, now |-> now, valid |-> Valid(exp, now)])
  /\ UNCHANGED <<kind, remote, filter, blockingVars, asyncVars, clientVars,
                 posts, episodes, last, now>>

\* Time passes.
Tick ==
  /\ kind = "auth"
  /\ now < MaxTime
  /\ now' = now + 1
  /\ UNCHANGED <<kind, remote, filter, blockingVars, asyncVars, clientVars,
                 posts, episodes, last, checked>>

Next == Pull \/ Poll \/ PullBoth \/ SyncCall \/ AsyncCall \/ Update \/ CheckValid \/ Tick

Spec == Init /\ [][Next]_vars

\* ------------------------------------------------------------ properties
NumPages == Len(remote)

\* The batch the first, cursor-less request is answered with.
SyncFirst == SyncGetBatch(remote, None, "ok")
AsyncFirst == AsyncGetBatch(remote, None, "ok")

SyncZeroItems(batch) == IsNone(batch.items) \/ Unwrap(batch.items) = <<>>
AsyncZeroItems(batch) == batch.items = <<>>

FirstReturned(f) == Len(f) >= 1 /\ f[1].res = "ok"

NoBatchIn(o) == \A i \in 1..Len(o) : o[i].tag # "Ok"

\* The pulls that returned a value (a poll answered Pending returned none).
Returned(o) == SelectSeq(o, LAMBDA x : x.tag # "Pending")

\* C5: when the cursor-less first fetch returns zero items and no next
\* cursor, the first pull reports end-of-stream and no batch is ever emitted,
\* in ProfileIter and in AsyncProfileIter.
C5_EmptyListingEmitsNothing ==
  /\ (FirstReturned(fetches) /\ SyncFirst.ok
        /\ SyncZeroItems(Unwrap(SyncFirst.batch))
        /\ IsNone(Unwrap(SyncFirst.batch).next_page))
       => (out[1] = RetNone /\ NoBatchIn(out))
  /\ (FirstReturned(afetches) /\ AsyncFirst.ok
        /\ AsyncZeroItems(Unwrap(AsyncFirst.batch))
        /\ IsNone(Unwrap(AsyncFirst.batch).next_page))
       => (aout[1] = RetNone /\ NoBatchIn(aout))

\* One batch, then end-of-stream, with one fetch.
SinglePage(f, o, items) ==
  /\ Len(f) = 1
  /\ o[1] = RetOk(items)
  /\ \A i \in 2..Len(o) : o[i] = RetNone

\* C6: when the first fetch returns items and no next cursor, the iterator
\* emits exactly that one batch, every later pull reports end-of-stream, and
\* exactly one fetch is issued.
C6_SinglePage ==
  /\ (FirstReturned(fetches) /\ SyncFirst.ok
        /\ ~SyncZeroItems(Unwrap(SyncFirst.batch))
        /\ IsNone(Unwrap(SyncFirst.batch).next_page))
       => SinglePage(fetches, out, Unwrap(Unwrap(SyncFirst.batch).items))
  /\ (FirstReturned(afetches) /\ AsyncFirst.ok
        /\ ~AsyncZeroItems(Unwrap(AsyncFirst.batch))
        /\ IsNone(Unwrap(AsyncFirst.batch).next_page))
       => SinglePage(afetches, aout, Unwrap(AsyncFirst.batch).items)

\* C6 witness: a single-page listing was pulled past its end.
C6_Witness ==
  \/ /\ FirstReturned(fetches) /\ SyncFirst.ok
     /\ ~SyncZeroItems(Unwrap(SyncFirst.batch))
     /\ IsNone(Unwrap(SyncFirst.batch).next_page)
     /\ Len(out) >= 3
  \/ /\ FirstReturned(afetches) /\ AsyncFirst.ok
     /\ ~AsyncZeroItems(Unwrap(AsyncFirst.batch))
     /\ IsNone(Unwrap(AsyncFirst.batch).next_page)
     /\ Len(aout) >= 3

\* Every page of the listing has a non-empty Items array of decodable
\* profiles, and the last page has no nextPage member.
NonEmptyChain(r) ==
  /\ \A k \in 1..Len(r) :
       /\ IsSome(r[k].Items)
       /\ Unwrap(r[k].Items) # <<>>
       /\ \A i \in 1..Len(Unwrap(r[k].Items)) : Unwrap(r[k].Items)[i] # BadItem
  /\ r[Len(r)].nextPage = NextAbsent

NoFailure(f) == \A i \in 1..Len(f) : f[i].res # "err"

\* The k-th pull that returns gives the items of page k, the pulls after the
\* last page give end-of-stream, and no more than one fetch per page is made.
InChainOrder(f, o) ==
  /\ \A i \in 1..Len(Returned(o)) :
       Returned(o)[i] = IF i <= NumPages THEN RetOk(Unwrap(remote[i].Items))
                                          ELSE RetNone
  /\ Len(f) <= NumPages
  /\ Len(Returned(o)) >= NumPages => Len(f) = NumPages

\* C7: for a listing of N non-empty pages and no failing fetch, the iterator
\* emits the N pages' items as N batches in cursor-chain order, then
\* end-of-stream, with exactly N fetches.
C7_MultiPage ==
  /\ (NonEmptyChain(remote) /\ NoFailure(fetches)) => InChainOrder(fetches, out)
  /\ (NonEmptyChain(remote) /\ NoFailure(afetches)) => InChainOrder(afetches, aout)

\* The cursor returned by the page that answered the request f[j].
ReturnedCursor(f, j) == DecodeNextPage(PageOf(remote, f[j].cursor).nextPage)

\* The first request carries no cursor; any later one carries the cursor of
\* the latest page fetched successfully before it.
CursorChain(f) ==
  \A i \in 1..Len(f) :
    IF i = 1 THEN f[i].cursor = None
    ELSE \E j \in 1..(i - 1) :
           /\ f[j].res = "ok"
           /\ \A m \in (j + 1)..(i - 1) : f[m].res # "ok"
           /\ IsSome(f[i].cursor)
           /\ f[i].cursor = ReturnedCursor(f, j)

\* C8: the first fetch carries no cursor and every later fetch carries
\* exactly the next-page cursor returned by the immediately preceding
\* successfully fetched page, in both iterators, however often they are
\* pulled.
C8_CursorUse == CursorChain(fetches) /\ CursorChain(afetches)

\* C8 witness: AsyncProfileIter was polled again after a Pending request for
\* the second page and repeated the cursor of the first page, then went on
\* to request the third page with the cursor of the second.
C8_Witness ==
  /\ Len(afetches) >= 4
  /\ afetches[2].res = "pending"
  /\ afetches[3].cursor = Some(2)
  /\ afetches[4].cursor = Some(3)

\* The batches ProfileIter hands out for pages 1..n: a page without an Items
\* array gives none.
RECURSIVE BatchesOfPages(_, _)
BatchesOfPages(r, n) ==
  IF n = 0 THEN <<>>
  ELSE LET b == Unwrap(SyncGetBatch(r, IF n = 1 THEN None ELSE Some(n), "ok").batch)
       IN IF IsSome(b.items)
            THEN Append(BatchesOfPages(r, n - 1), RetOk(Unwrap(b.items)))
            ELSE BatchesOfPages(r, n - 1)

\* C9: in ProfileIter, when fetch number k fails, the pulls before the
\* failing one returned the batches of pages 1..k-1 (k-1 batches when every
\* page has items), the failing pull returns the one Err item, every later
\* pull returns None, and the failing fetch is the last fetch.
C9_BlockingErrorPropagation ==
  \A k \in 1..Len(fetches) :
    fetches[k].res = "err" =>
      LET p == fetches[k].pull
      IN /\ k = Len(fetches)
         /\ SubSeq(out, 1, p - 1) = BatchesOfPages(remote, k - 1)
         /\ ((\A j \in 1..(k - 1) : IsSome(remote[j].Items)) => p = k)
         /\ out[p].tag = "Err"
         /\ \A i \in (p + 1)..Len(out) : out[i] = RetNone
         /\ state = "Error"

\* C9 witness: the second fetch failed after one emitted batch, and the
\* iterator was pulled again afterwards.
C9_Witness ==
  /\ Len(fetches) = 2 /\ fetches[2].res = "err"
  /\ out[1].tag = "Ok"
  /\ Len(out) >= 4

\* C10: in AsyncProfileIter, a failed page fetch is surfaced as an error to
\* the consumer on that pull, and afterwards no poll emits a batch or issues
\* another fetch.
C10_AsyncErrorPropagation ==
  \A k \in 1..Len(afetches) :
    afetches[k].res = "err" =>
      /\ aout[afetches[k].pull].tag = "Err"
      /\ k = Len(afetches)
      /\ \A i \in (afetches[k].pull + 1)..Len(aout) : aout[i].tag # "Ok"

\* C11: once ProfileIter is in Done or Error, or AsyncProfileIter is in
\* Done, every later pull returns end-of-stream, issues no fetch and leaves
\* the state where it is.
C11_TerminalStates ==
  [][/\ state \in {"Done", "Error"} =>
          /\ state' = state
          /\ fetches' = fetches
          /\ out' # out => out' = Append(out, RetNone)
     /\ astate = "Done" =>
          /\ astate' = "Done"
          /\ next' = next
          /\ afetches' = afetches
          /\ aout' # aout => aout' = Append(aout, RetNone)]_vars

EndsWithTwoNone(o) ==
  Len(o) >= 3 /\ o[Len(o)] = RetNone /\ o[Len(o) - 1] = RetNone

\* C11 witness: an iterator in a terminal state was pulled twice more, after
\* it had emitted a batch or an error.
C11_Witness ==
  \/ state \in {"Done", "Error"} /\ EndsWithTwoNone(out) /\ out[1].tag # "None"
  \/ astate = "Done" /\ EndsWithTwoNone(aout) /\ aout[1].tag = "Ok"

\* In the trace of one operation every HTTP request directly follows a call
\* of bearer_store.get() that gave a token, and carries that token; a call
\* of get() that failed ends the operation with its error.
TokenThenHttp(c) ==
  \A i \in 1..Len(c.trace) :
    /\ c.trace[i].ev = "http" =>
         /\ i > 1
         /\ c.trace[i - 1].ev = "token"
         /\ c.trace[i - 1].ok
         /\ c.trace[i - 1].tok = c.trace[i].tok
    /\ (c.trace[i].ev = "token" /\ ~c.trace[i].ok) =>
         /\ i = Len(c.trace)
         /\ c.ret = "RemoteError"

\* An operation that gets as far as its request begins with a new call of
\* bearer_store.get(), whatever the earlier operations ended with.
AsksTokenAnew(log, j) ==
  (log[j].ret # "UrlParseError" /\ ~(log[j].op = "update_users" /\ log[j].arg = <<>>))
    => /\ Len(log[j].trace) >= 1
       /\ log[j].trace[1].ev = "token"
       /\ log[j].trace[1].tok = TokenCalls(SubSeq(log, 1, j - 1)) + 1

\* C14: every operation of the client obtains a token from the bearer store
\* before each HTTP request and sends the request with that token; when the
\* token cannot be obtained the operation fails with that error and sends
\* nothing; the next operation asks the bearer store again.
C14_TokenBeforeRequest ==
  \A j \in 1..Len(calls) : TokenThenHttp(calls[j]) /\ AsksTokenAnew(calls, j)

\* C14 witness: an operation failed for lack of a token, and the next one
\* obtained a token and sent its request.
C14_Witness ==
  /\ Len(calls) = 2
  /\ calls[1].ret = "RemoteError"
  /\ calls[2].ret = "Ok"
  /\ \E i \in 1..Len(calls[2].trace) : calls[2].trace[i].ev = "http"

HttpSucceeded(c) ==
  c.trace # <<>> /\ c.trace[Len(c.trace)].ev = "http" /\ c.trace[Len(c.trace)].ok

\* C16: a single-profile lookup whose HTTP call succeeded fails with
\* ProfileDoesNotExist when the decoded profile has no uuid value, and
\* returns the profile only when it has one; a failed token or HTTP call is
\* reported as another error.
C16_ProfileDoesNotExist ==
  \A j \in 1..Len(calls) :
    calls[j].op = "get_user" =>
      /\ calls[j].ret = "ProfileDoesNotExist"
           <=> (HttpSucceeded(calls[j]) /\ IsNone(calls[j].arg))
      /\ calls[j].ret = "Ok"
           <=> (HttpSucceeded(calls[j]) /\ IsSome(calls[j].arg))
      /\ calls[j].ret = "Ok" <=> IsSome(calls[j].profile)
      /\ IsSome(calls[j].profile) => calls[j].profile = calls[j].arg
      /\ ~HttpSucceeded(calls[j])
           => calls[j].ret \in {"UrlParseError", "RemoteError", "RequestError"}

\* C16 witness: one lookup found no uuid value, another returned a profile.
C16_Witness ==
  /\ Len(calls) = 2
  /\ calls[1].op = "get_user" /\ calls[1].ret = "ProfileDoesNotExist"
  /\ calls[2].op = "get_user" /\ calls[2].ret = "Ok"

\* The case an update's input is in.
TokenCase(u) ==
  IF u.exchange # "ok" THEN "Network"
  ELSE IF IsNone(u.field) THEN "NoToken"
  ELSE IF ~Unwrap(u.field).decodable \/ IsNone(Unwrap(u.field).exp) THEN "NoExpiry"
  ELSE "Credential"

\* The case an update's result tells.
ResultCase(res) ==
  IF res.ok THEN "Credential"
  ELSE IF res.msg = "reqwest error" THEN "Network"
  ELSE IF res.msg = "no token :/" THEN "NoToken"
  ELSE IF res.msg \in {"biscuit error", "no expiry set"} THEN "NoExpiry"
  ELSE "other"

\* C17: Auth0::update gives a credential only if the exchange succeeded, the
\* response had an access_token string and the token had a decodable exp
\* claim, and the credential holds that token and that expiry; otherwise it
\* fails and the failure tells which of Network, NoToken and NoExpiry
\* happened.
C17_TokenFetcherOutcome ==
  IsSome(last) =>
    LET u == Unwrap(last)
    IN /\ ResultCase(u.res) = TokenCase(u)
       /\ u.res.ok =>
            /\ Unwrap(u.res.value).bearer_token_str = Unwrap(u.field)
            /\ Some(Unwrap(u.res.value).exp) = Unwrap(u.field).exp

\* C17 witness: an update failed on a token that is a JWT without exp.
C17_Witness ==
  /\ IsSome(last)
  /\ Unwrap(last).exchange = "ok"
  /\ Unwrap(last).field = Some([decodable |-> TRUE, exp |-> None])
  /\ ~Unwrap(last).res.ok

\* C18: each call of Auth0::update sends exactly one POST to the token
\* endpoint, whatever its outcome: the POSTs sent equal the updates started.
C18_OnePostPerRefresh ==
  /\ posts = episodes
  /\ IsSome(last) => Unwrap(last).res.posted = 1

\* C18 witness: two updates were made and the last one failed in send().
C18_Witness ==
  /\ episodes = 2
  /\ IsSome(last)
  /\ Unwrap(last).exchange = "send"

\* C19: valid() is true iff the time is strictly before the expiry.
C19_ValidIffBeforeExpiry ==
  IsSome(checked) =>
    (Unwrap(checked).valid <=> Unwrap(checked).now < Unwrap(checked).exp)

\* C19 witness: valid() was asked at the very time of the expiry.
C19_Witness ==
  /\ IsSome(checked)
  /\ Unwrap(checked).now = Unwrap(checked).exp
  /\ ~Unwrap(checked).valid

\* A response get_batch cannot decode in full: Items missing or not an
\* array, an item that is no Profile, a malformed nextPage.
Undecodable(page) ==
  \/ IsNone(page.Items)
  \/ \E i \in 1..Len(Unwrap(page.Items)) : Unwrap(page.Items)[i] = BadItem
  \/ page.nextPage = NextMalformed

\* A fetch of the log that failed in transport or met such a response.
FailedOrUndecodable(f) ==
  \/ f.res = "err"
  \/ f.res = "ok" /\ Undecodable(PageOf(remote, f.cursor))

\* C15: on the listing path a page fetch that fails in transport, or whose
\* response cannot be decoded, is reported as an error by the pull that made
\* it, in both iterators.
C15_ErrorsNotSwallowed ==
  /\ \A i \in 1..Len(fetches) :
       FailedOrUndecodable(fetches[i]) => out[fetches[i].pull].tag = "Err"
  /\ \A i \in 1..Len(afetches) :
       FailedOrUndecodable(afetches[i]) => aout[afetches[i].pull].tag = "Err"

\* The fetch got the page that has no next cursor.
FetchedTerminal(f) ==
  f.res = "ok" /\ IsNone(DecodeNextPage(PageOf(remote, f.cursor).nextPage))

\* C20: AsyncProfileIter returns Ready(None) only when a fetch of that or an
\* earlier poll got the terminal page or failed; and after a get_batch
\* future that was Pending, the next poll asks for the same page again and
\* does not end the stream unless that fetch fails.
C20_NoEarlyEndOfStream ==
  /\ \A p \in 1..Len(aout) :
       aout[p].tag = "None" =>
         \E i \in 1..Len(afetches) :
           /\ afetches[i].pull <= p
           /\ afetches[i].res = "err" \/ FetchedTerminal(afetches[i])
  /\ \A i \in 1..Len(afetches) :
       (afetches[i].res = "pending" /\ Len(aout) > afetches[i].pull) =>
         /\ i < Len(afetches)
         /\ afetches[i + 1].pull = afetches[i].pull + 1
         /\ afetches[i + 1].cursor = afetches[i].cursor
         /\ aout[afetches[i].pull + 1].tag = "None" => afetches[i + 1].res = "err"

\* The request of a log entry carries the iterator's filter, and its cursor
\* if it has one.
CarriesFilter(f) ==
  /\ f.query.filterDisplay = filter
  /\ f.query.nextPage = f.cursor

\* C21: every page request of an iterator created with a display filter
\* carries filterDisplay, also the continuation requests, which carry
\* nextPage as well.
C21_FilterOnEveryRequest ==
  /\ \A i \in 1..Len(fetches) : CarriesFilter(fetches[i])
  /\ \A i \in 1..Len(afetches) : CarriesFilter(afetches[i])

\* No two calls of get_batch in the log were made with the same cursor (the
\* cursor-less call included).
NoPageTwice(f) ==
  \A i \in 1..Len(f), j \in 1..Len(f) : i < j => f[i].cursor # f[j].cursor

\* C22: one iterator asks for no page twice: the cursor-less request is made
\* once and each cursor is sent in at most one fetch, whatever the outcome of
\* the fetch before, in ProfileIter and in AsyncProfileIter.
C22_NoPageRequestedTwice == NoPageTwice(fetches) /\ NoPageTwice(afetches)

\* The fetch got a page without items and without a next cursor, as the
\* get_batch that made it decodes the page.
GotEmptyLastPage(f, res) ==
  /\ f.res = "ok"
  /\ res.ok
  /\ IsNone(Unwrap(res.batch).next_page)

\* C23: a page with zero items and no next cursor is never emitted as a
\* batch, wherever it is in the chain: the pull that fetched it emits no
\* batch, in ProfileIter and in AsyncProfileIter.
C23_EmptyLastPageNotEmitted ==
  /\ \A i \in 1..Len(fetches) :
       LET res == SyncGetBatch(remote, fetches[i].cursor, "ok")
       IN (GotEmptyLastPage(fetches[i], res) /\ SyncZeroItems(Unwrap(res.batch)))
            => out[fetches[i].pull].tag # "Ok"
  /\ \A i \in 1..Len(afetches) :
       LET res == AsyncGetBatch(remote, afetches[i].cursor, "ok")
       IN (GotEmptyLastPage(afetches[i], res) /\ AsyncZeroItems(Unwrap(res.batch)))
            => aout[afetches[i].pull].tag # "Ok"

\* Fetches are made by pulls, the first one by the first pull and without a
\* cursor; none is made before.
FetchedOnPull(f, o) ==
  /\ \A i \in 1..Len(f) : f[i].pull \in 1..Len(o)
  /\ Len(f) >= 1 => f[1].pull = 1 /\ IsNone(f[1].cursor)
  /\ \A i \in 1..Len(f), j \in 1..Len(f) : i < j => f[i].pull <= f[j].pull

\* A fetch made with the cursor that fetch j returned comes in a later pull
\* than the one that handed over the batch of fetch j, if j had a batch.
AfterHandOver(f, o, hadBatch(_)) ==
  \A j \in 1..Len(f), i \in 1..Len(f) :
    (j < i /\ f[j].res = "ok" /\ IsSome(f[i].cursor)
       /\ ReturnedCursor(f, j) = f[i].cursor /\ hadBatch(f[j]))
      => /\ o[f[j].pull].tag = "Ok"
         /\ f[i].pull > f[j].pull

SyncHadBatch(f) == IsSome(Unwrap(SyncGetBatch(remote, f.cursor, "ok").batch).items)
AsyncHadBatch(f) == TRUE

\* One poll of AsyncProfileIter makes at most one fetch.
OneFetchPerPoll(f) ==
  \A i \in 1..Len(f), j \in 1..Len(f) : i < j => f[i].pull < f[j].pull

\* C24: creating an iterator makes no fetch, the first fetch is made by the
\* first pull, fetches are made one at a time, and the fetch of the page
\* after page k is made only by a pull that comes after the pull that handed
\* the batch of page k to the consumer.
C24_LazyNoPrefetch ==
  /\ FetchedOnPull(fetches, out)
  /\ FetchedOnPull(afetches, aout)
  /\ AfterHandOver(fetches, out, SyncHadBatch)
  /\ AfterHandOver(afetches, aout, AsyncHadBatch)
  /\ OneFetchPerPoll(afetches)

\* C24 witness: the second page was fetched by the second pull, after the
\* first pull had handed over the batch of the first page.
C24_Witness ==
  \/ /\ Len(fetches) >= 2 /\ fetches[2].pull = 2
     /\ fetches[2].res = "ok" /\ out[1].tag = "Ok"
  \/ /\ Len(afetches) >= 2 /\ afetches[2].pull = 2
     /\ afetches[2].res = "ok" /\ aout[1].tag = "Ok"

\* The batches a log of returned values holds, in order.
Batches(o) == SelectSeq(o, LAMBDA x : x.tag = "Ok")

\* The requests a fetch log holds, in order.
Requests(f) == [i \in 1..Len(f) |-> [cursor |-> f[i].cursor, query |-> f[i].query]]

\* C25: over the same well-formed listing, with fetches that never fail and
\* are ready when polled, ProfileIter and AsyncProfileIter emit the same
\* batches and make the same requests.
C25_IteratorsEquivalent ==
  kind = "both" =>
    /\ Batches(out) = Batches(aout)
    /\ Requests(fetches) = Requests(afetches)

\* C26: in ProfileIter, whenever the state is Inflight the current_batch is
\* present; next() never returns the InvalidState error, and the state is
\* Error only after a get_batch that failed, whose error the same pull
\* returned.
C26_InflightHasBatch ==
  /\ state = "Inflight" => IsSome(current_batch)
  /\ \A p \in 1..Len(out) : out[p] # RetErr("InvalidState")
  /\ state = "Error" =>
       /\ Len(fetches) >= 1
       /\ fetches[Len(fetches)].res = "err"
       /\ out[fetches[Len(fetches)].pull] = RetErr("request")

\* C26 witness: ProfileIter is Inflight after its second fetch, with a batch
\* whose items were handed over.
C26_Witness ==
  /\ state = "Inflight"
  /\ Len(fetches) = 2
  /\ IsSome(current_batch)
  /\ IsNone(Unwrap(current_batch).items)

\* The fetch got a page that has a next cursor but no Items array.
ItemlessWithCursor(f) ==
  /\ f.res = "ok"
  /\ IsNone(Unwrap(SyncGetBatch(remote, f.cursor, "ok").batch).items)
  /\ IsSome(Unwrap(SyncGetBatch(remote, f.cursor, "ok").batch).next_page)

\* C27: over a chain of P pages ProfileIter makes at most P fetches and is
\* in Done or Error once it was pulled more than P times; a page with a
\* cursor but without items is skipped: the same pull goes on to fetch the
\* next page and hands over no batch for the skipped one.
C27_BlockingTerminates ==
  /\ Len(fetches) <= NumPages
  /\ Len(out) > NumPages => state \in {"Done", "Error"}
  /\ \A i \in 1..Len(fetches) :
       ItemlessWithCursor(fetches[i]) =>
         /\ i < Len(fetches)
         /\ fetches[i + 1].pull = fetches[i].pull
         /\ fetches[i + 1].cursor = ReturnedCursor(fetches, i)

\* C27 witness: ProfileIter reached Done over a three-page chain whose second
\* page has no items, with one batch handed over for each of the other two.
C27_Witness ==
  /\ kind = "blocking"
  /\ state = "Done"
  /\ NumPages = 3
  /\ Len(fetches) = 3
  /\ ItemlessWithCursor(fetches[2])
  /\ Len(Batches(out)) = 2

\* The HTTP requests of an operation, in order.
HttpRequests(c) == SelectSeq(c.trace, LAMBDA e : e.ev = "http")

Ceil(n, d) == (n + d - 1) \div d

\* Request i of an update_users call posts the i-th chunk of at most size
\* profiles of the input.
PostsChunk(c, i, size) ==
  /\ HttpRequests(c)[i].verb = "POST"
  /\ HttpRequests(c)[i].payload =
       SubSeq(c.arg, (i - 1) * size + 1,
              IF i * size < Len(c.arg) THEN i * size ELSE Len(c.arg))

\* Only the last thing an operation did can have failed.
FailsLast(c) ==
  \A i \in 1..Len(c.trace) : ~c.trace[i].ok => i = Len(c.trace)

\* C28: update_users posts the profiles in consecutive chunks of at most
\* batch_size, in input order, one POST per chunk; when nothing fails there
\* are ceil(n / batch_size) POSTs and it returns success; the first failure
\* of a token call or a POST is returned, is the last thing done, and the
\* chunks posted before stay posted.
C28_UpdateUsersChunks ==
  \A j \in 1..Len(calls) :
    calls[j].op = "update_users" =>
      LET c == calls[j]
          n == Len(c.arg)
      IN /\ \A i \in 1..Len(HttpRequests(c)) : PostsChunk(c, i, batch_size)
         /\ Len(HttpRequests(c)) <= Ceil(n, batch_size)
         /\ FailsLast(c)
         /\ c.ret = "Ok" <=>
              /\ Len(HttpRequests(c)) = Ceil(n, batch_size)
              /\ \A i \in 1..Len(c.trace) : c.trace[i].ok
         /\ c.ret # "Ok" =>
              /\ c.trace # <<>>
              /\ c.ret = IF c.trace[Len(c.trace)].ev = "token"
                           THEN "RemoteError" ELSE "RequestError"

\* C28 witness: three profiles were posted in two chunks with batch_size 2,
\* and another call failed at its second chunk after posting the first.
C28_Witness ==
  /\ batch_size = 2
  /\ Len(calls) = 2
  /\ calls[1].op = "update_users" /\ Len(calls[1].arg) = 3
  /\ calls[1].ret = "Ok" /\ Len(HttpRequests(calls[1])) = 2
  /\ calls[2].op = "update_users" /\ Len(calls[2].arg) = 3
  /\ calls[2].ret = "RequestError" /\ Len(HttpRequests(calls[2])) = 2

\* A step of an iterator state that goes forward or stays: never back to
\* Uninitalized, from Inflight only to Done or Error, never out of Done or
\* Error; a pull (pulled) leaves Uninitalized.
Forward(s, t, pulled) ==
  /\ s = "Uninitalized" /\ pulled => t # "Uninitalized"
  /\ s # "Uninitalized" => t # "Uninitalized"
  /\ s = "Inflight" => t \in {"Inflight", "Done", "Error"}
  /\ s \in {"Done", "Error"} => t = s

\* An iterator that was never pulled is Uninitalized.
StartsUninitialized ==
  /\ out = <<>> => state = "Uninitalized"
  /\ aout = <<>> => astate = "Uninitalized"

\* C29: both iterators start Uninitalized, leave it on the first pull and
\* never come back, leave Inflight only for Done or Error, and never leave
\* Done or Error.
C29_StateForward ==
  [][/\ StartsUninitialized
     /\ StartsUninitialized'
     /\ Forward(state, state', out' # out)
     /\ Forward(astate, astate', aout' # aout)]_vars

\* C29 witness: each kind of iterator has gone from Uninitalized through
\* Inflight to its last state.
C29_Witness ==
  \/ /\ kind = "blocking" /\ state = "Error"
     /\ Len(out) = 3 /\ out[1].tag = "Ok" /\ out[2].tag = "Ok"
  \/ /\ kind = "async" /\ astate = "Done"
     /\ Len(aout) = 3 /\ aout[1].tag = "Pending"
====
